---- MODULE Spec2Model ----
(***************************************************************************)
(* AHT21 temperature / humidity sensor driver (src/aht21/aht21.c).         *)
(*                                                                         *)
(* The specifications share the variables of this module:                  *)
(*   Spec        the driver: probe / remove, open / read / release, with   *)
(*               aht21_read_raw_data split at its blocking bus calls;      *)
(*   SpecLive    the driver bound once, with the scheduling of read calls; *)
(*   SpecTwoReaders  two files open at once on a fault-free bus;           *)
(*   SpecCrc     aht21_crc8 run step by step over bounded byte sequences;  *)
(*   SpecDecode  the field extraction and unit conversion of               *)
(*               aht21_read_raw_data over bounded raw values.              *)
(* C arrays keep their C indices: a buffer is a function on 0..n-1.        *)
(***************************************************************************)
EXTENDS Integers, Sequences, FiniteSets, TLC

VARIABLES
    file,      \* per open-file state: position, the running read call, its outcome
    dev,       \* the i2c client / misc device: sessions, registration
    maxOpen,   \* how many files the environment holds open at once
    crcRun,    \* SpecCrc: the running aht21_crc8 call
    decRun     \* SpecDecode: the running extraction / conversion

vars == <<file, dev, maxOpen, crcRun, decRun>>

---------------------------------------------------------------------------
(* Bounds of the model                                                     *)

\* longest byte sequence given to aht21_crc8 in SpecCrc
MaxLen == 3
\* number of raw values drawn from the arithmetic progression in SpecDecode
NumSamples == 12
\* step of that progression (mod 2^20)
SampleStep == 87381
\* number of probe calls (sessions) in one behaviour of Spec
MaxProbes == 2

---------------------------------------------------------------------------
(* Program constants                                                       *)

AHT21_CMD_INIT == 190
AHT21_CMD_MEASURE == 172
AHT21_STATUS_BUSY == 128
AHT21_STATUS_CAL == 8
CRC_INIT == 255
CRC_POLY == 49
CRC_TOPBIT == 128
MAX_RETRY == 10
FRAME_LEN == 7
CRC_LEN == 6
CMD_LEN == 3
OUTPUT_SIZE == 32
RAW_SCALE == 1048576
HUM_RANGE == 100
TEMP_RANGE == 200
TEMP_OFFSET == 50
SETTLE_MS == 100
POLL_MS == 10
INIT_MS == 10
\* errno values (the kernel's numbering); ENXIO is what a bus adapter
\* answers when the device does not acknowledge its address
EIO == 5
ENXIO == 6
ENOMEM == 12
EFAULT == 14
EBUSY == 16

init_cmd == <<AHT21_CMD_INIT, 8, 0>>
measure_cmd == <<AHT21_CMD_MEASURE, 51, 0>>

---------------------------------------------------------------------------
(* C integer operators on naturals                                         *)

RECURSIVE BitXor(_, _)
BitXor(a, b) ==
    IF a = 0 THEN b
    ELSE IF b = 0 THEN a
    ELSE (((a % 2) + (b % 2)) % 2) + 2 * BitXor(a \div 2, b \div 2)

RECURSIVE BitAnd(_, _)
BitAnd(a, b) ==
    IF a = 0 \/ b = 0 THEN 0
    ELSE ((a % 2) * (b % 2)) + 2 * BitAnd(a \div 2, b \div 2)

RECURSIVE BitOr(_, _)
BitOr(a, b) ==
    IF a = 0 THEN b
    ELSE IF b = 0 THEN a
    ELSE (IF a % 2 = 1 \/ b % 2 = 1 THEN 1 ELSE 0) + 2 * BitOr(a \div 2, b \div 2)

Shl(a, n) == a * 2^n
Shr(a, n) == a \div 2^n
\* assignment to a u8
U8(x) == x % 256

Bytes == 0..255

---------------------------------------------------------------------------
(* aht21_crc8                                                              *)

\* faulty variant: leaves out the polynomial
CrcShiftBug(crc) ==
    IF BitAnd(crc, CRC_TOPBIT) # 0
      THEN U8(Shl(crc, 1))
      ELSE U8(Shl(crc, 1))

\* one pass of the inner loop body: the accumulator is a u8, the shift and
\* xor are done in int and the assignment truncates
CrcShift(crc) ==
    IF BitAnd(crc, CRC_TOPBIT) # 0
      THEN U8(BitXor(Shl(crc, 1), CRC_POLY))
      ELSE U8(Shl(crc, 1))

\* for (j = 0; j < 8; j++) from j on.  crc is a u8; stating it also makes
\* TLC evaluate the accumulator at every pass instead of nesting 48 of them
RECURSIVE CrcShifts(_, _)
CrcShifts(crc, j) ==
    IF j < 8 /\ crc \in Bytes THEN CrcShifts(CrcShift(crc), j + 1) ELSE crc

\* for (i = 0; i < len; i++) from i on
RECURSIVE CrcBytes(_, _, _, _)
CrcBytes(data, len, i, crc) ==
    IF i < len /\ crc \in Bytes
      THEN CrcBytes(data, len, i + 1, CrcShifts(BitXor(crc, data[i]), 0))
      ELSE crc

aht21_crc8(data, len) == CrcBytes(data, len, 0, CRC_INIT)

---------------------------------------------------------------------------
(* The datasheet's CRC: the remainder of the message polynomial, with its  *)
(* first eight coefficients complemented (initial value 0xFF) and eight    *)
(* zero coefficients appended, divided by x^8 + x^5 + x^4 + 1 over GF(2).  *)
(* Polynomials are sequences of coefficients, highest degree first.        *)

Generator == <<1, 0, 0, 1, 1, 0, 0, 0, 1>>

\* the bits of the bytes data[0..n-1], most significant first, from bit k on
RECURSIVE MsgBits(_, _, _)
MsgBits(data, n, k) ==
    IF k > 8 * n THEN <<>>
    ELSE <<(data[(k - 1) \div 8] \div 2^(7 - ((k - 1) % 8))) % 2>>
           \o MsgBits(data, n, k + 1)

Augmented(data, n) ==
    LET m == MsgBits(data, n, 1) \o <<0, 0, 0, 0, 0, 0, 0, 0>>
    IN  [k \in 1..8 |-> 1 - m[k]] \o SubSeq(m, 9, Len(m))

\* p with the generator added (mod 2) at coefficients pos..pos+8
AddGenerator(p, pos) ==
    SubSeq(p, 1, pos - 1)
      \o [k \in 1..9 |-> (p[pos + k - 1] + Generator[k]) % 2]
      \o SubSeq(p, pos + 9, Len(p))

RECURSIVE PolyRem(_, _)
PolyRem(p, pos) ==
    IF pos > Len(p) - 8 THEN p
    ELSE IF p[pos] = 0 THEN PolyRem(p, pos + 1)
    ELSE PolyRem(AddGenerator(p, pos), pos + 1)

RECURSIVE BitsValue(_, _, _)
BitsValue(p, from, acc) ==
    IF from > Len(p) THEN acc ELSE BitsValue(p, from + 1, 2 * acc + p[from])

RefCrc(data, n) ==
    LET r == PolyRem(Augmented(data, n), 1)
    IN  BitsValue(r, Len(r) - 7, 0)

---------------------------------------------------------------------------
(* SpecCrc: aht21_crc8 step by step                                        *)

ByteSamples == {0, 1, 49, 128, 172, 190, 239, 255}

InitCrc ==
    /\ \E n \in 0..MaxLen : \E d \in [0..(n - 1) -> ByteSamples] :
          crcRun = [pc |-> "outer", data |-> d, len |-> n,
                    i |-> 0, j |-> 0, crc |-> CRC_INIT]
    /\ file = <<>> /\ dev = <<>> /\ maxOpen = 0 /\ decRun = <<>>

\* i < len: crc ^= data[i], enter the inner loop
CrcXorByte ==
    /\ crcRun.pc = "outer"
    /\ crcRun.i < crcRun.len
    /\ crcRun' = [crcRun EXCEPT !.crc = BitXor(crcRun.crc, crcRun.data[crcRun.i]),
                                !.j = 0, !.pc = "inner"]
    /\ UNCHANGED <<file, dev, maxOpen, decRun>>

\* j < 8: one shift step
CrcShiftStep ==
    /\ crcRun.pc = "inner"
    /\ crcRun.j < 8
    /\ crcRun' = [crcRun EXCEPT !.crc = CrcShift(crcRun.crc), !.j = crcRun.j + 1]
    /\ UNCHANGED <<file, dev, maxOpen, decRun>>

\* j = 8: next byte
CrcNextByte ==
    /\ crcRun.pc = "inner"
    /\ crcRun.j >= 8
    /\ crcRun' = [crcRun EXCEPT !.i = crcRun.i + 1, !.pc = "outer"]
    /\ UNCHANGED <<file, dev, maxOpen, decRun>>

\* i = len: return crc
CrcReturn ==
    /\ crcRun.pc = "outer"
    /\ crcRun.i >= crcRun.len
    /\ crcRun' = [crcRun EXCEPT !.pc = "return"]
    /\ UNCHANGED <<file, dev, maxOpen, decRun>>

NextCrc == CrcXorByte \/ CrcShiftStep \/ CrcNextByte \/ CrcReturn

SpecCrc == InitCrc /\ [][NextCrc]_vars

---------------------------------------------------------------------------
(* Field extraction and unit conversion of aht21_read_raw_data             *)

\* faulty variant: drops the shift that discards the temperature nibble
ExtractHumidityNoShift(data) ==
    BitOr(BitOr(Shl(data[1], 16), Shl(data[2], 8)), data[3])

ExtractHumidity(data) ==
    Shr(BitOr(BitOr(Shl(data[1], 16), Shl(data[2], 8)), data[3]), 4)

\* faulty variant: keeps the humidity nibble of data[3]
ExtractTemperatureNoMask(data) ==
    BitOr(BitOr(Shl(data[3], 16), Shl(data[4], 8)), data[5])

ExtractTemperature(data) ==
    BitOr(BitOr(Shl(BitAnd(data[3], 15), 16), Shl(data[4], 8)), data[5])

\* (humidity_raw/(1<<20))*100 in u32, stored to an int
ConvertHumidity(humidity_raw) ==
    (humidity_raw \div RAW_SCALE) * HUM_RANGE

\* ((temperature_raw/(1<<20))*200) - 50 in u32, stored to an int: the u32
\* difference wraps to 2^32 - 50 when the product is below 50 and the store
\* to int reads it back as the negative number, so the stored value is the
\* mathematical difference (|value| < 2^31 for every u32 input)
ConvertTemperature(temperature_raw) ==
    ((temperature_raw \div RAW_SCALE) * TEMP_RANGE) - TEMP_OFFSET

\* The sensor's side of the frame layout: bytes 1..5 from the two 20-bit values
SensorPack(h, t) ==
    [i \in 1..5 |->
        CASE i = 1 -> h \div 4096
          [] i = 2 -> (h \div 16) % 256
          [] i = 3 -> (h % 16) * 16 + (t \div 65536)
          [] i = 4 -> (t \div 256) % 256
          [] i = 5 -> t % 256]

\* a whole frame as the sensor sends it: status, packed fields, CRC
SensorFrame(status, h, t, crcGood) ==
    LET body == [i \in 0..5 |-> IF i = 0 THEN status ELSE SensorPack(h, t)[i]]
        c == RefCrc(body, 6)
    IN  [i \in 0..6 |-> IF i < 6 THEN body[i]
                        ELSE IF crcGood THEN c ELSE (c + 1) % 256]

---------------------------------------------------------------------------
(* SpecDecode: extraction and conversion over sampled raw values           *)

RawSamples ==
    {(i * SampleStep) % RAW_SCALE : i \in 0..NumSamples}
      \cup {2^k : k \in 0..19}
      \cup {RAW_SCALE - 1 - 2^k : k \in 0..19}
      \cup {0, RAW_SCALE - 1, 104866, 812646}

InitDecode ==
    /\ \E h \in RawSamples : \E t \in RawSamples :
          decRun = [pc |-> "frame", h |-> h, t |-> t,
                    data |-> SensorFrame(AHT21_STATUS_CAL, h, t, TRUE),
                    humidity_raw |-> 0, temperature_raw |-> 0,
                    humidity |-> 0, temperature |-> 0]
    /\ file = <<>> /\ dev = <<>> /\ maxOpen = 0 /\ crcRun = <<>>

DecExtract ==
    /\ decRun.pc = "frame"
    /\ decRun' = [decRun EXCEPT !.pc = "raw",
                                !.humidity_raw = ExtractHumidity(decRun.data),
                                !.temperature_raw = ExtractTemperature(decRun.data)]
    /\ UNCHANGED <<file, dev, maxOpen, crcRun>>

DecConvert ==
    /\ decRun.pc = "raw"
    /\ decRun' = [decRun EXCEPT !.pc = "physical",
                                !.humidity = ConvertHumidity(decRun.humidity_raw),
                                !.temperature = ConvertTemperature(decRun.temperature_raw)]
    /\ UNCHANGED <<file, dev, maxOpen, crcRun>>

NextDecode == DecExtract \/ DecConvert

SpecDecode == InitDecode /\ [][NextDecode]_vars

---------------------------------------------------------------------------
(* The bus and the sensor, as the driver sees them                         *)

Files == {1, 2}
Sessions == 1..MaxProbes

\* i2c_master_send / i2c_master_recv return a negative errno or a byte count
TransportErrors == {-EIO, -ENXIO, -EBUSY}
SendResults == TransportErrors \cup {CMD_LEN}
ShortCounts == {0}

ZeroFrame == [i \in 0..6 |-> 0]

BusyStatus == AHT21_STATUS_BUSY + AHT21_STATUS_CAL
ReadyStatus == AHT21_STATUS_CAL

Frames ==
    { SensorFrame(BusyStatus, 104866, 812646, TRUE),
      SensorFrame(BusyStatus, 0, 0, FALSE),
      SensorFrame(ReadyStatus, 104866, 812646, TRUE),
      SensorFrame(ReadyStatus, RAW_SCALE - 1, RAW_SCALE - 1, TRUE),
      SensorFrame(ReadyStatus, 104866, 812646, FALSE) }

\* what the transport delivered, read off the wire (not by the driver's code)
WireKind(ret, fr) ==
    IF ret < 0 THEN "err"
    ELSE IF ret < FRAME_LEN THEN "short"
    ELSE IF fr[0] >= 128 THEN "busy"
    ELSE IF fr[6] = RefCrc(fr, 6) THEN "ready_ok"
    ELSE "ready_bad"

\* what one i2c_master_recv(client, data, 7) does: its return value, the
\* bytes it delivers (the first ret of fr), and what that is on the wire
RecvResults ==
    {[ret |-> e, fr |-> ZeroFrame, kind |-> WireKind(e, ZeroFrame)] :
        e \in TransportErrors}
      \cup {[ret |-> FRAME_LEN, fr |-> fr, kind |-> WireKind(FRAME_LEN, fr)] :
              fr \in Frames}
      \cup {[ret |-> n, fr |-> [i \in 0..6 |-> IF i < n THEN fr[i] ELSE 0],
              kind |-> WireKind(n, fr)] : n \in ShortCounts, fr \in Frames}

\* contents an uninitialised stack buffer may hold
Garbage == Frames \cup {ZeroFrame}

\* the count argument of read(2)
Counts == {0, 1, OUTPUT_SIZE}

---------------------------------------------------------------------------
(* aht21_read_raw_data and aht21_read                                      *)

\* an entry of a call's log: a bus operation or a sleep, with its argument
\* (the bytes sent, the byte count asked for, the milliseconds slept)
Ev(op, arg) == [op |-> op, arg |-> arg]

SendFailed(ret) == ret < 0

\* faulty variant: does not look at the receive's return value
RecvFailedNever(ret) == FALSE
RecvFailed(ret) == ret < 0

IsBusy(status) == BitAnd(status, AHT21_STATUS_BUSY) # 0

\* faulty variant: polls once more
MoreRetriesOffByOne(retry) == retry <= MAX_RETRY
\* faulty variant: starts the ten polls again once
MoreRetriesRestart(retry) == retry < 2 * MAX_RETRY
MoreRetries(retry) == retry < MAX_RETRY

\* crc = aht21_crc8(data, 6).  The value is tabulated once for the buffers
\* the bus of this model can leave in data; any other buffer is computed.
KnownCrc == {<<b, aht21_crc8(b, CRC_LEN)>> : b \in Garbage}

FrameCrc(data) ==
    IF \E p \in KnownCrc : p[1] = data
      THEN (CHOOSE p \in KnownCrc : p[1] = data)[2]
      ELSE aht21_crc8(data, CRC_LEN)

\* faulty variant: accepts any CRC byte
CrcMismatchIgnored(data) == FALSE
CrcMismatch(data) == FrameCrc(data) # data[6]

\* the buffer after a receive that returned ret >= 0: the delivered bytes
\* over what the buffer held
Stored(old, r) == [i \in 0..6 |-> IF i < r.ret THEN r.fr[i] ELSE old[i]]

\* scnprintf(output, sizeof(output), "%d %d\n", temperature, humidity)
DigitChar(d) == <<"0", "1", "2", "3", "4", "5", "6", "7", "8", "9">>[d + 1]

RECURSIVE NatStr(_)
NatStr(n) == IF n < 10 THEN <<DigitChar(n)>>
             ELSE NatStr(n \div 10) \o <<DigitChar(n % 10)>>

IntStr(n) == IF n < 0 THEN <<"-">> \o NatStr(-n) ELSE NatStr(n)

Scnprintf(size, temperature, humidity) ==
    LET full == IntStr(temperature) \o <<" ">> \o IntStr(humidity) \o <<"\n">>
    IN  IF Len(full) <= size - 1 THEN full ELSE SubSeq(full, 1, size - 1)

\* the part of a file's state that belongs to one read call
NoCall ==
    [ ppos0 |-> 0, retry |-> 0, dataInit |-> FALSE, data |-> ZeroFrame,
      log |-> <<>>, sendRet |-> 0, recvs |-> 0, busyFull |-> 0, shorts |-> 0,
      last |-> "none", lastRet |-> 0,
      called |-> FALSE, raw |-> 0, decoded |-> FALSE, outSet |-> FALSE,
      temperature |-> 0, humidity |-> 0,
      count |-> 0, rc |-> 0, copied |-> 0, output |-> <<>>,
      foreignOps |-> FALSE, retrig |-> FALSE ]

ClosedFile == [pc |-> "closed", sess |-> 0, ppos |-> 0, served |-> FALSE, c |-> NoCall]

\* lines 140-166: after the loop
AfterLoop(c) ==
    IF IsBusy(c.data[0])
      THEN [c EXCEPT !.raw = -EBUSY]
    ELSE IF CrcMismatch(c.data)
      THEN [c EXCEPT !.raw = -EIO]
    ELSE [c EXCEPT !.raw = 0, !.decoded = TRUE, !.outSet = TRUE,
                   !.humidity = ConvertHumidity(ExtractHumidity(c.data)),
                   !.temperature = ConvertTemperature(ExtractTemperature(c.data))]

\* lines 185-196: aht21_read after aht21_read_raw_data returned; the result
\* is the file with its new position
\* faulty variant: forgets *ppos += len
ReadTailNoAdvance(fl, c, bufOk) ==
    IF c.raw < 0
      THEN [fl EXCEPT !.pc = "done", !.c = [c EXCEPT !.rc = c.raw]]
    ELSE
      LET out == Scnprintf(OUTPUT_SIZE, c.temperature, c.humidity)
          len == Len(out)
      IN  IF ~bufOk
            THEN [fl EXCEPT !.pc = "done",
                            !.c = [c EXCEPT !.rc = -EFAULT, !.output = out]]
            ELSE [fl EXCEPT !.pc = "done",
                            !.c = [c EXCEPT !.rc = len, !.copied = len, !.output = out]]

ReadTail(fl, c, bufOk) ==
    IF c.raw < 0
      THEN [fl EXCEPT !.pc = "done", !.c = [c EXCEPT !.rc = c.raw]]
    ELSE
      LET out == Scnprintf(OUTPUT_SIZE, c.temperature, c.humidity)
          len == Len(out)
      IN  IF ~bufOk
            THEN [fl EXCEPT !.pc = "done",
                            !.c = [c EXCEPT !.rc = -EFAULT, !.output = out]]
            ELSE [fl EXCEPT !.pc = "done", !.ppos = fl.ppos + len,
                            !.c = [c EXCEPT !.rc = len, !.copied = len, !.output = out]]

---------------------------------------------------------------------------
(* Spec: the driver                                                        *)

InitDev ==
    [ gen |-> 0, bound |-> FALSE, registered |-> FALSE, clientdata |-> FALSE,
      mem |-> [g \in Sessions |-> "none"],
      init |-> [g \in Sessions |-> "none"],
      probeLog |-> <<>>, probeRet |-> 0, removeLog |-> <<>>, oops |-> FALSE ]

Init ==
    /\ file = [f \in Files |-> ClosedFile]
    /\ dev = InitDev
    /\ maxOpen = 1
    /\ crcRun = <<>>
    /\ decRun = <<>>

\* faulty variant: does not report a failed send
aht21_init_sensor_swallow(sendRet) ==
    [ret |-> 0, log |-> <<Ev("send", init_cmd), Ev("msleep", <<INIT_MS>>)>>]

\* aht21_init_sensor: the value it returns and what it did on the bus
aht21_init_sensor(sendRet) ==
    IF sendRet < 0
      THEN [ret |-> sendRet, log |-> <<Ev("send", init_cmd)>>]
      ELSE [ret |-> 0, log |-> <<Ev("send", init_cmd), Ev("msleep", <<INIT_MS>>)>>]

\* aht21_probe, whole: funcOk, sendRet, allocOk, regOk are what
\* i2c_check_functionality, i2c_master_send, devm_kzalloc and misc_register
\* answer.  init[g] records what the bus answered to the Initialize send.
aht21_probe(d, funcOk, sendRet, allocOk, regOk) ==
    LET g == d.gen + 1
        ini == aht21_init_sensor(sendRet)
        sent == [d EXCEPT !.gen = g, !.removeLog = <<>>,
                          !.init[g] = IF sendRet < 0 THEN "fail" ELSE "ok"]
    IN  IF ~funcOk
          THEN [d EXCEPT !.gen = g, !.removeLog = <<>>, !.probeRet = -EIO,
                         !.probeLog = <<Ev("check_functionality", <<>>)>>]
        ELSE IF ini.ret # 0
          THEN [sent EXCEPT !.probeRet = -EIO,
                            !.probeLog = <<Ev("check_functionality", <<>>)>> \o ini.log]
        ELSE IF ~allocOk
          THEN [sent EXCEPT !.probeRet = -ENOMEM,
                            !.probeLog = <<Ev("check_functionality", <<>>)>> \o ini.log
                                           \o <<Ev("devm_kzalloc", <<>>)>>]
        ELSE IF ~regOk
          \* the device-managed allocation is released when probe fails
          THEN [sent EXCEPT !.probeRet = -EIO, !.mem[g] = "freed",
                            !.probeLog = <<Ev("check_functionality", <<>>)>> \o ini.log
                                           \o <<Ev("devm_kzalloc", <<>>),
                                                Ev("misc_register", <<>>)>>]
        ELSE [sent EXCEPT !.probeRet = 0, !.mem[g] = "live", !.registered = TRUE,
                          !.clientdata = TRUE, !.bound = TRUE,
                          !.probeLog = <<Ev("check_functionality", <<>>)>> \o ini.log
                                         \o <<Ev("devm_kzalloc", <<>>),
                                              Ev("misc_register", <<>>),
                                              Ev("i2c_set_clientdata", <<>>)>>]

Probe ==
    /\ ~dev.oops
    /\ ~dev.bound
    /\ dev.gen < MaxProbes
    /\ \E funcOk \in BOOLEAN, sendRet \in SendResults,
          allocOk \in BOOLEAN, regOk \in BOOLEAN :
          dev' = aht21_probe(dev, funcOk, sendRet, allocOk, regOk)
    /\ UNCHANGED <<file, maxOpen, crcRun, decRun>>

\* aht21_remove, whole: the data is freed first and misc_deregister then
\* reads data->miscdev out of the freed block.  That read is undefined: the
\* block still holds the miscdevice (intact) or it does not and the kernel
\* faults (oops).
aht21_remove(d, intact) ==
    IF d.clientdata
      THEN [d EXCEPT !.mem[d.gen] = "freed",
                     !.removeLog = <<Ev("devm_kfree", <<>>), Ev("misc_deregister", <<>>)>>,
                     !.registered = IF intact THEN FALSE ELSE d.registered,
                     !.oops = ~intact,
                     !.bound = FALSE, !.clientdata = FALSE]
      ELSE [d EXCEPT !.bound = FALSE]

Remove ==
    /\ ~dev.oops
    /\ dev.bound
    /\ \E intact \in BOOLEAN : dev' = aht21_remove(dev, intact)
    /\ UNCHANGED <<file, maxOpen, crcRun, decRun>>

OpenFiles == {f \in Files : file[f].pc # "closed"}

\* open(2) of the misc device node, which exists while the device is registered
Open(f) ==
    /\ ~dev.oops
    /\ dev.registered
    /\ file[f].pc = "closed"
    /\ Cardinality(OpenFiles) < maxOpen
    /\ file' = [file EXCEPT ![f] = [ClosedFile EXCEPT !.pc = "idle", !.sess = dev.gen]]
    /\ UNCHANGED <<dev, maxOpen, crcRun, decRun>>

\* close(2)
Release(f) ==
    /\ ~dev.oops
    /\ file[f].pc = "idle"
    /\ file' = [file EXCEPT ![f] = ClosedFile]
    /\ UNCHANGED <<dev, maxOpen, crcRun, decRun>>

\* read(2), first part: aht21_read up to the end of the settle delay
EofCheck(ppos) == ppos > 0

ReadEof(f) ==
    /\ ~dev.oops
    /\ file[f].pc = "idle"
    /\ EofCheck(file[f].ppos)
    /\ file' = [file EXCEPT ![f].pc = "done",
                            ![f].c = [NoCall EXCEPT !.ppos0 = file[f].ppos, !.rc = 0]]
    /\ UNCHANGED <<dev, maxOpen, crcRun, decRun>>

\* aht21_data->client is read through file->private_data; after aht21_remove
\* that block is freed and the read is undefined (the client pointer is still
\* there, or the kernel faults)
ReadFault(f) ==
    /\ ~dev.oops
    /\ file[f].pc = "idle"
    /\ ~EofCheck(file[f].ppos)
    /\ dev.mem[file[f].sess] = "freed"
    /\ dev' = [dev EXCEPT !.oops = TRUE]
    /\ UNCHANGED <<file, maxOpen, crcRun, decRun>>

\* faulty variant: goes on to poll without the settle delay
TriggerResultNoSettle(fl, sendRet) ==
    LET c0 == [NoCall EXCEPT !.ppos0 = fl.ppos, !.called = TRUE,
                             !.sendRet = sendRet,
                             !.log = <<Ev("send", measure_cmd)>>]
    IN  IF SendFailed(sendRet)
          THEN ReadTail(fl, [c0 EXCEPT !.raw = sendRet], TRUE)
          ELSE [fl EXCEPT !.pc = "polling", !.c = [c0 EXCEPT !.retry = 0]]

\* lines 117-124: the trigger send and the settle delay
TriggerResult(fl, sendRet) ==
    LET c0 == [NoCall EXCEPT !.ppos0 = fl.ppos, !.called = TRUE,
                             !.sendRet = sendRet,
                             !.log = <<Ev("send", measure_cmd)>>]
    IN  IF SendFailed(sendRet)
          THEN ReadTail(fl, [c0 EXCEPT !.raw = sendRet], TRUE)
          ELSE [fl EXCEPT !.pc = "polling",
                          !.c = [c0 EXCEPT !.retry = 0,
                                    !.log = c0.log \o <<Ev("msleep", <<SETTLE_MS>>)>>]]

\* The bus and the sensor are shared by all open files and nothing in the
\* driver serialises the calls: a bus operation of file f falls into the
\* measurement of every other file that has sent its trigger and not yet done
\* its last receive, and a trigger of f that reached the sensor makes the
\* frames those files receive from now on answers to f's trigger.
Intrude(fs, f, trigger) ==
    [g \in Files |->
        IF g # f /\ fs[g].pc = "polling"
          THEN [fs[g] EXCEPT !.c.foreignOps = TRUE,
                             !.c.retrig = fs[g].c.retrig \/ trigger]
          ELSE fs[g]]

ReadTrigger(f) ==
    /\ ~dev.oops
    /\ file[f].pc = "idle"
    /\ ~EofCheck(file[f].ppos)
    /\ \E sendRet \in SendResults :
          file' = [Intrude(file, f, ~SendFailed(sendRet)) EXCEPT
                      ![f] = TriggerResult(file[f], sendRet)]
    /\ UNCHANGED <<dev, maxOpen, crcRun, decRun>>

\* one pass of the polling loop, and when it is the last one the rest of
\* aht21_read_raw_data and of aht21_read.  g is what the buffer held before
\* its first write (it shows only through a short first receive), bufOk
\* whether copy_to_user can write the caller's buffer, count the count
\* argument of the read (the code uses it nowhere; it is drawn where the
\* copy is made and kept only for a call that got that far).
ReadPoll(f) ==
    /\ ~dev.oops
    /\ file[f].pc = "polling"
    /\ \E r \in RecvResults :
          LET c == file[f].c
              c1 == [c EXCEPT !.log = c.log \o <<Ev("recv", <<FRAME_LEN>>)>>,
                              !.recvs = c.recvs + 1,
                              !.busyFull = IF r.kind = "busy" THEN c.busyFull + 1
                                           ELSE c.busyFull,
                              !.shorts = IF r.kind = "short" THEN c.shorts + 1
                                         ELSE c.shorts,
                              !.last = r.kind, !.lastRet = r.ret]
              others == Intrude(file, f, FALSE)
          IN  IF RecvFailed(r.ret)
                THEN file' = [others EXCEPT ![f] =
                                 ReadTail(file[f], [c1 EXCEPT !.raw = r.ret], TRUE)]
                ELSE
                  \E g \in (IF c.dataInit \/ r.ret >= FRAME_LEN THEN {ZeroFrame} ELSE Garbage) :
                  LET old == IF c.dataInit THEN c.data ELSE g
                      c2 == [c1 EXCEPT !.data = Stored(old, r), !.dataInit = TRUE]
                      c3 == [c2 EXCEPT !.retry = c2.retry + 1,
                                       !.log = c2.log \o <<Ev("msleep", <<POLL_MS>>)>>]
                      broke == AfterLoop(c2)
                  IN  IF ~IsBusy(c2.data[0])
                        THEN \E bufOk \in BOOLEAN :
                             \E count \in (IF broke.raw = 0 THEN Counts ELSE {0}) :
                               file' = [others EXCEPT ![f] =
                                           ReadTail(file[f],
                                                    [broke EXCEPT !.count = count],
                                                    bufOk)]
                      ELSE IF MoreRetries(c3.retry)
                        THEN file' = [others EXCEPT ![f].c = c3]
                      ELSE file' = [others EXCEPT ![f] =
                                       ReadTail(file[f], AfterLoop(c3), TRUE)]
    /\ UNCHANGED <<dev, maxOpen, crcRun, decRun>>

\* read(2) returns to the caller
ReadReturn(f) ==
    /\ ~dev.oops
    /\ file[f].pc = "done"
    /\ file' = [file EXCEPT ![f].pc = "idle", ![f].c = NoCall,
                            ![f].served = file[f].served \/ file[f].c.rc > 0]
    /\ UNCHANGED <<dev, maxOpen, crcRun, decRun>>

Next ==
    \/ Probe
    \/ Remove
    \/ \E f \in Files : Open(f)
    \/ \E f \in Files : Release(f)
    \/ \E f \in Files : ReadEof(f)
    \/ \E f \in Files : ReadFault(f)
    \/ \E f \in Files : ReadTrigger(f)
    \/ \E f \in Files : ReadPoll(f)
    \/ \E f \in Files : ReadReturn(f)

Spec == Init /\ [][Next]_vars

\* The driver with a device that is bound once.  A read call runs in the
\* context of the calling thread; the scheduler resumes it after every msleep
\* and every bus transfer, so a call that can take its next step does take it.
ProbeFirst == dev.gen = 0 /\ Probe

NextLive ==
    \/ ProbeFirst
    \/ Remove
    \/ \E f \in Files : Open(f)
    \/ \E f \in Files : Release(f)
    \/ \E f \in Files : ReadEof(f)
    \/ \E f \in Files : ReadFault(f)
    \/ \E f \in Files : ReadTrigger(f)
    \/ \E f \in Files : ReadPoll(f)
    \/ \E f \in Files : ReadReturn(f)

SpecLive ==
    Init /\ [][NextLive]_vars /\ \A f \in Files : WF_vars(ReadPoll(f))

\* Two readers hold the device open at once, on a bus that delivers every
\* transfer whole and a sensor that answers with correct frames: the probe
\* succeeds, sends succeed, receives deliver busy frames or good ready frames.
QuietCall(fl) ==
    /\ fl.c.sendRet >= 0
    /\ fl.c.last \in {"none", "busy", "ready_ok"}

InitTwoReaders ==
    /\ file = [f \in Files |-> ClosedFile]
    /\ dev = InitDev
    /\ maxOpen = 2
    /\ crcRun = <<>>
    /\ decRun = <<>>

ProbeOk == dev.gen = 0 /\ Probe /\ dev'.registered
QuietTrigger(f) == ReadTrigger(f) /\ QuietCall(file'[f])
QuietPoll(f) == ReadPoll(f) /\ QuietCall(file'[f])

NextTwoReaders ==
    \/ ProbeOk
    \/ \E f \in Files : Open(f)
    \/ \E f \in Files : Release(f)
    \/ \E f \in Files : ReadEof(f)
    \/ \E f \in Files : QuietTrigger(f)
    \/ \E f \in Files : QuietPoll(f)
    \/ \E f \in Files : ReadReturn(f)

SpecTwoReaders == InitTwoReaders /\ [][NextTwoReaders]_vars

---------------------------------------------------------------------------
(* Properties                                                              *)

\* the entries of a log with the given operation
Ops(log, op) == SelectSeq(log, LAMBDA e : e.op = op)

Done(f) == file[f].pc = "done"

\* C1: with the trigger sent, a call whose receives delivered k busy frames
\* and then a ready frame with a correct CRC succeeds after exactly k+1
\* receives (k < 10); a call whose receives all delivered busy frames ends
\* only after exactly 10 receives, with -EBUSY.
C1_PollingLoop ==
    \A f \in Files :
        LET c == file[f].c
            n == Len(Ops(c.log, "recv"))
        IN  (Done(f) /\ c.called /\ c.sendRet >= 0) =>
              /\ n = c.recvs
              /\ (c.last = "ready_ok" /\ c.busyFull = n - 1) =>
                    (c.busyFull < 10 /\ c.raw = 0 /\ n = c.busyFull + 1)
              /\ (c.busyFull = n) => (n = 10 /\ c.raw = -EBUSY)

C1_Witness ==
    \E f \in Files :
        /\ Done(f) /\ file[f].c.busyFull = 9 /\ file[f].c.recvs = 10
        /\ file[f].c.last = "ready_ok" /\ file[f].c.raw = 0

\* buffers whose byte 6 is not the datasheet CRC of bytes 0..5
BadCrcBuffers == {b \in Garbage : b[6] # RefCrc(b, 6)}

\* C2: when the loop ends on a non-busy buffer whose byte 6 differs from the
\* CRC of bytes 0..5 the call returns -EIO and nothing is decoded.
C2_CrcMismatch ==
    \A f \in Files :
        LET c == file[f].c
        IN  (Done(f) /\ c.dataInit /\ c.last # "err"
               /\ c.data[0] < 128 /\ c.data \in BadCrcBuffers) =>
              (c.raw = -EIO /\ c.rc = -EIO /\ ~c.decoded /\ ~c.outSet)

C2_Witness ==
    \E f \in Files :
        /\ Done(f) /\ file[f].c.last = "ready_bad" /\ file[f].c.recvs = 3
        /\ file[f].c.raw = -EIO

\* C3: a failed trigger send is returned with no receive done; a failed
\* receive is returned at once: it is the last operation of the call, there
\* was one send, and nothing is decoded.
C3_TransportFailure ==
    \A f \in Files :
        LET c == file[f].c
        IN  (Done(f) /\ c.called) =>
              /\ c.sendRet < 0 =>
                    (c.raw = c.sendRet /\ c.log = <<Ev("send", measure_cmd)>>
                       /\ c.recvs = 0 /\ ~c.decoded)
              /\ (c.sendRet >= 0 /\ c.last = "err") =>
                    (c.raw = c.lastRet /\ c.log[Len(c.log)].op = "recv"
                       /\ Len(Ops(c.log, "send")) = 1
                       /\ Len(Ops(c.log, "recv")) = c.recvs
                       /\ c.recvs \in 1..10 /\ ~c.decoded /\ ~c.outSet)

C3_Witness ==
    \E f \in Files :
        /\ Done(f) /\ file[f].c.last = "err" /\ file[f].c.recvs = 10
        /\ file[f].c.raw = -ENXIO

\* C4 (as claimed): once a receive has delivered fewer than 7 bytes the call
\* is over with an error, that receive being its last, and nothing was
\* decoded.
C4_ShortReceiveFails ==
    \A f \in Files :
        LET c == file[f].c
        IN  c.shorts > 0 =>
              (Done(f) /\ c.last = "short" /\ c.shorts = 1 /\ c.raw < 0 /\ ~c.decoded)

\* C5 (as claimed): the converted values are floor(raw * 100 / 2^20) and
\* floor(raw * 200 / 2^20) - 50.
C5_Conversion ==
    decRun.pc = "physical" =>
        /\ decRun.humidity = (decRun.h * HUM_RANGE) \div RAW_SCALE
        /\ decRun.temperature = ((decRun.t * TEMP_RANGE) \div RAW_SCALE) - TEMP_OFFSET

\* bytes 1..5 packed from (h, t), the other bytes zero
PackedOnly(h, t) == [i \in 0..6 |-> IF i \in 1..5 THEN SensorPack(h, t)[i] ELSE 0]

\* C6: extraction gives back the packed values, whatever the other field holds.
C6_RoundTrip ==
    decRun.pc \in {"raw", "physical"} =>
        /\ decRun.humidity_raw = decRun.h
        /\ decRun.temperature_raw = decRun.t
        /\ \A x \in {0, RAW_SCALE - 1} :
              /\ ExtractHumidity(PackedOnly(decRun.h, x)) = decRun.h
              /\ ExtractTemperature(PackedOnly(x, decRun.t)) = decRun.t

C6_Witness ==
    /\ decRun.pc = "raw"
    /\ decRun.h = RAW_SCALE - 1 /\ decRun.t = 0
    /\ decRun.humidity_raw = RAW_SCALE - 1 /\ decRun.temperature_raw = 0

\* C7: the accumulator is a byte after every step, and the returned value is
\* the datasheet CRC of the input (0xFF for the empty input, 0x92 for BE EF)
\* and the value of the operator aht21_crc8 on that input.
C7_Crc8 ==
    /\ crcRun.crc \in 0..255
    /\ crcRun.pc = "return" =>
          /\ crcRun.crc = RefCrc(crcRun.data, crcRun.len)
          /\ crcRun.crc = aht21_crc8(crcRun.data, crcRun.len)
          /\ crcRun.len = 0 => crcRun.crc = 255
          /\ (crcRun.len = 2 /\ crcRun.data[0] = 190 /\ crcRun.data[1] = 239)
                => crcRun.crc = 146

C7_Witness ==
    /\ crcRun.pc = "return" /\ crcRun.len = 2
    /\ crcRun.data[0] = 190 /\ crcRun.data[1] = 239
    /\ crcRun.crc = 146

\* the kind of failure the bus history of a finished call shows
FailKind(c) ==
    IF c.sendRet < 0 \/ c.last = "err" THEN "transport"
    ELSE IF c.busyFull = 10 /\ c.recvs = 10 THEN "busy"
    ELSE IF c.last = "ready_bad" THEN "crc"
    ELSE "other"

\* what a read returns whose trigger send fails with e
SendFailureRc(e) == TriggerResult([ClosedFile EXCEPT !.pc = "idle"], e).c.rc

\* C8 (as claimed): the value a busy or CRC failure returns is never a value
\* a transport failure returns, and busy and CRC failures return different
\* values.
C8_DistinctErrors ==
    \A f \in Files :
        LET c == file[f].c
        IN  (Done(f) /\ c.called /\ FailKind(c) \in {"busy", "crc"}) =>
              /\ \A e \in TransportErrors : SendFailureRc(e) # c.rc
              /\ FailKind(c) = "busy" => c.rc # -EIO
              /\ FailKind(c) = "crc" => c.rc # -EBUSY

\* C9: once a read of an open file has returned a measurement, a later read
\* of it returns 0 and does nothing on the bus; a read that failed left the
\* position where it was, and a read of a file that has returned no
\* measurement yet does measure.
C9_EndOfStream ==
    \A f \in Files :
        LET c == file[f].c
        IN  /\ file[f].served => file[f].pc \in {"idle", "done"}
            /\ (file[f].served /\ Done(f)) =>
                  (c.rc = 0 /\ c.log = <<>> /\ ~c.called /\ c.recvs = 0)
            /\ (Done(f) /\ c.rc < 0) => file[f].ppos = c.ppos0
            /\ (Done(f) /\ ~file[f].served) =>
                  (c.called /\ Len(Ops(c.log, "send")) = 1)

C9_Witness ==
    \E f \in Files :
        file[f].served /\ Done(f) /\ file[f].c.rc = 0 /\ file[f].ppos > 0

\* C10: a registered device was registered by a probe that sent Initialize
\* {0xBE, 0x08, 0x00} once and slept the settle delay before misc_register;
\* a probe whose Initialize send failed fails, stops after the send and
\* registers nothing; every file that sent a trigger belongs to a session
\* whose Initialize send succeeded.
C10_InitBeforeUse ==
    LET sends == Ops(dev.probeLog, "send")
        Pos(op) == CHOOSE i \in 1..Len(dev.probeLog) : dev.probeLog[i].op = op
    IN  /\ Len(sends) <= 1
        /\ \A i \in 1..Len(sends) : sends[i].arg = <<190, 8, 0>>
        /\ dev.registered =>
              /\ Len(sends) = 1
              /\ Len(Ops(dev.probeLog, "msleep")) = 1
              /\ Ops(dev.probeLog, "msleep")[1].arg[1] >= 10
              /\ Pos("send") < Pos("msleep")
              /\ Pos("msleep") < Pos("misc_register")
              /\ dev.init[dev.gen] = "ok"
        /\ (dev.gen > 0 /\ dev.init[dev.gen] = "fail") =>
              /\ ~dev.registered /\ ~dev.bound
              /\ dev.probeRet < 0
              /\ dev.mem[dev.gen] = "none"
              /\ dev.probeLog[Len(dev.probeLog)].op = "send"
        /\ \A f \in Files :
              (file[f].pc # "closed" /\ file[f].c.called) =>
                  dev.init[file[f].sess] = "ok"

C10_Witness ==
    /\ dev.gen = 2 /\ dev.init[1] = "ok" /\ dev.init[2] = "fail"
    /\ dev.probeRet = -EIO /\ ~dev.registered
    /\ \E f \in Files : file[f].pc = "polling" /\ file[f].sess = 1

\* C11 (as claimed): a call that returns an error wrote neither output, the
\* read copied nothing and left the position where it was; the outputs are
\* written only when the last receive delivered a whole frame with BUSY clear
\* and the datasheet's CRC in byte 6.
C11_NoPartialMeasurement ==
    \A f \in Files :
        LET c == file[f].c
        IN  /\ (Done(f) /\ c.called /\ c.raw < 0) =>
                  /\ ~c.outSet /\ ~c.decoded
                  /\ c.rc = c.raw /\ c.copied = 0 /\ c.output = <<>>
                  /\ file[f].ppos = c.ppos0
            /\ c.outSet => (c.lastRet = FRAME_LEN /\ c.last = "ready_ok")

\* data with bit b of byte i inverted
FlipBit(data, i, b) == [data EXCEPT ![i] = BitXor(data[i], 2^b)]

\* C12: the value aht21_crc8 returned differs from its value on the input
\* with any one bit inverted.
C12_SingleBitFlip ==
    crcRun.pc = "return" =>
        \A i \in 0..(crcRun.len - 1) : \A b \in 0..7 :
            aht21_crc8(FlipBit(crcRun.data, i, b), crcRun.len) # crcRun.crc

C12_Witness ==
    /\ crcRun.pc = "return" /\ crcRun.len = 3
    /\ crcRun.data[0] = 172 /\ crcRun.data[1] = 49 /\ crcRun.data[2] = 0
    /\ aht21_crc8(FlipBit(crcRun.data, 2, 7), 3) # crcRun.crc

\* C13: the values decoded from a CRC-valid frame without BUSY are a humidity
\* in 0..100 and a temperature in -50..150.
C13_Ranges ==
    decRun.pc = "physical" =>
        /\ decRun.humidity \in 0..HUM_RANGE
        /\ decRun.temperature \in (-TEMP_OFFSET)..(TEMP_RANGE - TEMP_OFFSET)

C13_Witness ==
    /\ decRun.pc = "physical"
    /\ decRun.h = RAW_SCALE - 1 /\ decRun.t = RAW_SCALE - 1
    /\ ~IsBusy(decRun.data[0]) /\ ~CrcMismatch(decRun.data)
    /\ decRun.humidity \in 0..100 /\ decRun.temperature \in -50..150

\* C15: the log of a call starts with the one send of TriggerMeasurement
\* {0xAC, 0x33, 0x00}, then the settle delay of 100 ms, and only then
\* receives; there is no other send.
C15_TriggerSettleReceive ==
    \A f \in Files :
        LET c == file[f].c
        IN  c.called =>
              /\ Len(c.log) >= 1 /\ c.log[1] = Ev("send", <<172, 51, 0>>)
              /\ Len(Ops(c.log, "send")) = 1
              /\ Len(c.log) >= 2 => c.log[2] = Ev("msleep", <<100>>)
              /\ \A i \in 1..Len(c.log) : c.log[i].op = "recv" => i >= 3
              /\ c.recvs > 0 => (Len(c.log) >= 3 /\ c.log[3].op = "recv")

C15_Witness ==
    \E f \in Files :
        /\ file[f].pc = "polling" /\ file[f].c.recvs = 2
        /\ Len(file[f].c.log) = 6 /\ file[f].c.log[3].op = "recv"

\* a call is over: aht21_read has its return value
Terminal(f) == Done(f) /\ file[f].c.called

\* C16: a call does at most one send and at most ten receives; a call that
\* is over does nothing more on the bus (its log stays as it is until read(2)
\* has returned); and a call that is polling comes to an end, unless the
\* kernel has faulted meanwhile.
C16_Terminates ==
    /\ [](\A f \in Files :
            /\ Len(Ops(file[f].c.log, "send")) <= 1
            /\ Len(Ops(file[f].c.log, "recv")) <= 10
            /\ file[f].c.recvs <= 10
            /\ file[f].pc = "polling" => file[f].c.retry <= 9
            /\ Terminal(f) =>
                  \/ file[f].c.rc > 0 /\ file[f].c.raw = 0
                  \/ file[f].c.rc < 0)
    /\ [][\A f \in Files :
            Terminal(f) =>
                \/ file'[f].c.log = file[f].c.log /\ file'[f].pc = "done"
                \/ file'[f].c = NoCall /\ file'[f].pc = "idle"]_vars
    /\ \A f \in Files :
            (file[f].pc = "polling") ~> (Terminal(f) \/ dev.oops)

C16_Witness ==
    \E f \in Files :
        /\ Terminal(f) /\ file[f].c.recvs = 10 /\ file[f].c.busyFull = 10
        /\ file[f].c.rc = -EBUSY /\ Len(Ops(file[f].c.log, "send")) = 1

\* C18 (as claimed): aht21_remove deregisters the device before it frees the
\* session data, nothing reads the data after the free, and it does nothing
\* on the bus.
C18_TeardownOrder ==
    LET log == dev.removeLog
        Pos(op) == CHOOSE i \in 1..Len(log) : log[i].op = op
    IN  /\ Ops(log, "send") = <<>> /\ Ops(log, "recv") = <<>>
        /\ (Ops(log, "devm_kfree") # <<>> /\ Ops(log, "misc_deregister") # <<>>)
              => Pos("misc_deregister") < Pos("devm_kfree")

\* what aht21_read_raw_data returns when its only receive returned ret and
\* delivered the first ret bytes of fr into a buffer that held zeros
OneReceiveOnZeros(ret, fr) ==
    AfterLoop([NoCall EXCEPT
                 !.data = Stored(ZeroFrame, [ret |-> ret, fr |-> fr])]).raw

\* C14 (as claimed): the status of a call is fixed by the results of its bus
\* operations.  For a call with one receive: it returns what the call
\* returns that observed the same send and receive results over a zeroed
\* stack, and on success the same two values.
C14_NoStateBetweenCalls ==
    \A f \in Files :
        LET c == file[f].c
        IN  (Done(f) /\ c.called /\ c.sendRet >= 0 /\ c.recvs = 1
               /\ c.lastRet >= 0) =>
              /\ c.raw = OneReceiveOnZeros(c.lastRet, c.data)
              /\ c.raw = 0 =>
                    /\ c.humidity = ConvertHumidity(ExtractHumidity(c.data))
                    /\ c.temperature = ConvertTemperature(ExtractTemperature(c.data))

\* C17 (as claimed): a read copies at most count bytes to the caller and
\* returns at most count.
C17_CountRespected ==
    \A f \in Files :
        LET c == file[f].c
        IN  Done(f) =>
              /\ c.copied <= c.count
              /\ c.rc <= c.count

\* C19 (as claimed): no bus operation of another file falls between a
\* call's trigger send and its last receive, and no call decodes a frame
\* that answers another file's trigger.
C19_NoInterleaving ==
    \A f \in Files :
        /\ ~file[f].c.foreignOps
        /\ file[f].c.decoded => ~file[f].c.retrig

====
